---- MODULE Spec2Model ----
(***************************************************************************)
(* Model of src/src/sig.rs: the match engine (matched, styled) and the     *)
(* concurrent pipeline of run (ingestion task, keeping task, input loop,   *)
(* cancellation and shutdown).                                             *)
(*                                                                         *)
(* Text is a sequence of one-character strings; byte offsets are 0-based   *)
(* as in the source, so byte i of a line l is l[i + 1].                     *)
(***************************************************************************)
EXTENDS Integers, Sequences, FiniteSets, TLC

(***************************************************************************)
(* Bounds of the model.                                                    *)
(***************************************************************************)
MaxQueryLen == 4
MaxLineLen == 2

(***************************************************************************)
(* Alphabets: a Line holds letters; a Query holds letters, the separator,  *)
(* a blank and the repetition operator of the regular expression syntax.   *)
(***************************************************************************)
LineChars == {"a", "A"}
QueryChars == {"a", "A", "|", " ", "*"}

SeqsUpTo(S, n) == UNION {[1..k -> S] : k \in 0..n}

(***************************************************************************)
(* styled, lines 45-49: query.split('|').map(trim).filter(!is_empty).      *)
(***************************************************************************)
RECURSIVE SplitPipe(_)
SplitPipe(q) ==
    IF \A i \in 1..Len(q) : q[i] # "|"
    THEN <<q>>
    ELSE LET i == CHOOSE j \in 1..Len(q) :
                      q[j] = "|" /\ \A k \in 1..(j - 1) : q[k] # "|"
         IN <<SubSeq(q, 1, i - 1)>> \o SplitPipe(SubSeq(q, i + 1, Len(q)))

RECURSIVE Trim(_)
Trim(s) ==
    IF s = <<>> THEN s
    ELSE IF Head(s) = " " THEN Trim(Tail(s))
    ELSE IF s[Len(s)] = " " THEN Trim(SubSeq(s, 1, Len(s) - 1))
    ELSE s

Piped(query) ==
    LET parts == SplitPipe(query)
        trimmed == [i \in 1..Len(parts) |-> Trim(parts[i])]
        NonEmpty(s) == s # <<>>
    IN SelectSeq(trimmed, NonEmpty)

(***************************************************************************)
(* matched, lines 26-28: RegexMatcherBuilder::build_many.  A pattern is a  *)
(* sequence of atoms, each a character optionally followed by repetition   *)
(* operators; a repetition operator with nothing before it does not        *)
(* compile, and build_many fails when any pattern fails.                   *)
(***************************************************************************)
Compiles(p) == p # <<>> /\ p[1] # "*"

RECURSIVE Atoms(_)
Atoms(p) ==
    IF p = <<>> THEN <<>>
    ELSE LET stars == CHOOSE k \in 0..(Len(p) - 1) :
                          /\ \A j \in 2..(k + 1) : p[j] = "*"
                          /\ (k + 2 <= Len(p) => p[k + 2] # "*")
         IN <<[c |-> p[1], star |-> stars > 0]>>
                \o Atoms(SubSeq(p, stars + 2, Len(p)))

Lower(c) == IF c = "A" THEN "a" ELSE c

CharEq(c, d, case_insensitive) ==
    c = d \/ (case_insensitive /\ Lower(c) = Lower(d))

\* Length of the run of characters equal to c starting at byte offset pos.
RECURSIVE RunLen(_, _, _, _)
RunLen(c, line, pos, ci) ==
    IF pos < Len(line) /\ CharEq(c, line[pos + 1], ci)
    THEN 1 + RunLen(c, line, pos + 1, ci)
    ELSE 0

\* End offset of the match of the atoms at offset pos the regex engine
\* prefers (greedy repetition, backtracking), or -1 when there is none.
RECURSIVE MatchEnd(_, _, _, _)
MatchEnd(atoms, line, pos, ci) ==
    IF atoms = <<>> THEN pos
    ELSE LET a == Head(atoms)
         IN IF ~a.star
            THEN IF pos < Len(line) /\ CharEq(a.c, line[pos + 1], ci)
                 THEN MatchEnd(Tail(atoms), line, pos + 1, ci)
                 ELSE -1
            ELSE LET run == RunLen(a.c, line, pos, ci)
                     ok == {k \in 0..run :
                               MatchEnd(Tail(atoms), line, pos + k, ci) # -1}
                 IN IF ok = {} THEN -1
                    ELSE LET k == CHOOSE x \in ok : \A y \in ok : y <= x
                         IN MatchEnd(Tail(atoms), line, pos + k, ci)

\* The alternation of the patterns at offset pos: the first listed pattern
\* that matches there decides the match.
AltMatchEnd(queries, line, pos, ci) ==
    LET hits == {j \in 1..Len(queries) :
                    MatchEnd(Atoms(queries[j]), line, pos, ci) # -1}
    IN IF hits = {} THEN -1
       ELSE LET j == CHOOSE x \in hits : \A y \in hits : x <= y
            IN MatchEnd(Atoms(queries[j]), line, pos, ci)

\* Matcher::find_at: the leftmost match starting at or after offset at.
FindAt(queries, line, at, ci) ==
    LET starts == {s \in at..Len(line) : AltMatchEnd(queries, line, s, ci) # -1}
    IN IF starts = {} THEN [found |-> FALSE, start |-> 0, end |-> 0]
       ELSE LET s == CHOOSE x \in starts : \A y \in starts : x <= y
            IN [found |-> TRUE, start |-> s,
                end |-> AltMatchEnd(queries, line, s, ci)]

(***************************************************************************)
(* matched, lines 29-35: Matcher::find_iter_at with the closure that stops *)
(* the iteration at the first match starting at or after the line's end.   *)
(* last_match is -1 for None.                                              *)
(***************************************************************************)
RECURSIVE FindIter(_, _, _, _, _)
FindIter(queries, line, last_end, last_match, ci) ==
    IF last_end > Len(line) THEN <<>>
    ELSE LET m == FindAt(queries, line, last_end, ci)
         IN IF ~m.found THEN <<>>
            ELSE IF m.start = m.end /\ m.end = last_match
            THEN FindIter(queries, line, m.end + 1, last_match, ci)
            ELSE IF m.start >= Len(line) THEN <<>>
            ELSE <<[start |-> m.start, end |-> m.end]>>
                    \o FindIter(queries, line,
                                IF m.start = m.end THEN m.end + 1 ELSE m.end,
                                m.end, ci)

\* matched: Err when a pattern does not compile, else Ok(matches).
matched(queries, line, case_insensitive) ==
    IF \E j \in 1..Len(queries) : ~Compiles(queries[j])
    THEN [ok |-> FALSE, matches |-> <<>>]
    ELSE [ok |-> TRUE,
          matches |-> FindIter(queries, line, 0, -1, case_insensitive)]

\* The style applied through the end offset of each match as well.
CoveredInclusive(matches) ==
    UNION {m.start..m.end : m \in {matches[i] : i \in 1..Len(matches)}}

\* The byte offsets styled gives the highlight style, lines 61-65.
Covered(matches) ==
    UNION {m.start..(m.end - 1) : m \in {matches[i] : i \in 1..Len(matches)}}

None == [some |-> FALSE, hl |-> {}]
Some(hl) == [some |-> TRUE, hl |-> hl]

QueryIsEmpty(query) == query = <<>>

\* styled with the catch-all arm of line 69 showing the Line: a Query that
\* does not compile leaves the Line unstyled instead of hiding it.
styledErrShowsLine(query, line, case_insensitive) ==
    LET piped == Piped(query)
    IN IF QueryIsEmpty(query) THEN Some({})
       ELSE LET r == matched(piped, line, case_insensitive)
            IN IF r.ok
               THEN IF r.matches = <<>> THEN None
                    ELSE Some(Covered(r.matches))
               ELSE Some({})

\* styled, lines 39-72.
styled(query, line, case_insensitive) ==
    LET piped == Piped(query)
    IN IF QueryIsEmpty(query) THEN Some({})
       ELSE LET r == matched(piped, line, case_insensitive)
            IN IF r.ok
               THEN IF r.matches = <<>> THEN None
                    ELSE Some(Covered(r.matches))
               ELSE None

(***************************************************************************)
(* run, lines 74-160.                                                      *)
(***************************************************************************)
MaxLines == 3
MaxCapacity == 2

\* A channel with room for one Line more.
ChannelCapacityTwo == 1 + 1

\* mpsc::channel(1), line 95.
ChannelCapacity == 1

\* The lines the source can yield and the texts the keymap can leave in the
\* editor: the empty Query, a pattern, a Query of separators only and a
\* pattern that does not compile.
SourceLines == {<<"a">>, <<"A">>}
EditorTexts == {<<>>, <<"a">>, <<"|">>, <<"*">>}

Signals == {"Continue", "GotoArchived", "GotoStreaming"}
NoSignal == "Unset"
NoLine == <<"-">>
NoResult == [ok |-> FALSE]

\* A loop that any resolved Signal ends.
IsTerminatingAny(sig) == sig \in Signals

\* Line 147: the two Signal values that end the input loop.
IsTerminating(sig) == sig = "GotoArchived" \/ sig = "GotoStreaming"

\* The eviction taking the newest element (pop_back) instead of the oldest.
PushLinePopBack(q, line, capacity) ==
    (IF Len(q) > capacity THEN SubSeq(q, 1, Len(q) - 1) ELSE q) \o <<line>>

\* Lines 117-120: pop_front when the length exceeds the capacity, then
\* push_back.
PushLine(q, line, capacity) ==
    (IF Len(q) > capacity THEN Tail(q) ELSE q) \o <<line>>

\* rx.recv() on a non-empty channel, line 112: the value handed over and
\* what stays in the channel.
ChanFront(ch) == Head(ch)

\* A receive that leaves the value in the channel.
ChanRestKeep(ch) == ch

ChanRest(ch) == Tail(ch)

VARIABLES
    argQuery, argLine, argCI, ret,   \* a call of styled and what it returned
    queue_capacity, case_insensitive, \* configuration of run
    query,                            \* text of the shared editor state
    edWriter, edReader,               \* guards held on shared_text_editor
    termWriter, termReader,           \* guards held on shared_term
    chan,                             \* the handoff channel
    cancelCount,                      \* times canceler.cancel() has run
    ipc, held, nread,                 \* streaming task
    kpc, kline, queue,                \* keeping task
    rpc, signal, result,              \* input loop and return of run
    forwarded, received,              \* history: lines sent and received
    npush, shown,                     \* history: pushes, and per pushed line
                                      \* whether the merged draw was called
    recvAfterCancel                   \* history: lines received after cancel

argVars == <<argQuery, argLine, argCI, ret>>
confVars == <<queue_capacity, case_insensitive>>
lockVars == <<edWriter, edReader, termWriter, termReader>>
ingestVars == <<ipc, held, nread>>
keepVars == <<kpc, kline, queue>>
inputVars == <<rpc, signal, result>>
histVars == <<forwarded, received, npush, shown, recvAfterCancel>>

vars == <<argVars, confVars, query, lockVars, chan, cancelCount, ingestVars,
          keepVars, inputVars, histVars>>

NotCalled == [called |-> FALSE]

canceled == cancelCount > 0

IngestEnded == ipc \in {"Ok", "Err", "Panic"}
KeepEnded == kpc \in {"Ok", "Err"}

\* State of run after line 105: both tasks spawned, nothing received.
InitRun ==
    /\ queue_capacity \in 1..MaxCapacity
    /\ case_insensitive \in BOOLEAN
    /\ query \in EditorTexts
    /\ edWriter = FALSE /\ edReader = FALSE
    /\ termWriter = FALSE /\ termReader = FALSE
    /\ chan = <<>>
    /\ cancelCount = 0
    /\ ipc = "check" /\ held = NoLine /\ nread = 0
    /\ kpc = "tick" /\ kline = NoLine /\ queue = <<>>
    /\ rpc = "read" /\ signal = NoSignal /\ result = NoResult
    /\ forwarded = <<>> /\ received = <<>> /\ npush = 0 /\ shown = <<>>
    /\ recvAfterCancel = 0

Init ==
    /\ InitRun
    /\ argQuery = <<>> /\ argLine = <<>> /\ argCI = FALSE /\ ret = NotCalled

(***************************************************************************)
(* The streaming task (cmd::execute / stdin::streaming, spawned at lines   *)
(* 99-103).  Its loop checks the token, reads one line under the timeout   *)
(* and forwards it into the channel; the sender is dropped when it ends.   *)
(***************************************************************************)
IngestCheck ==
    /\ ipc = "check"
    /\ ipc' = IF canceled THEN "Ok" ELSE "read"
    /\ UNCHANGED <<argVars, confVars, query, lockVars, chan, cancelCount,
                   held, nread, keepVars, inputVars, histVars>>

IngestReadLine ==
    /\ ipc = "read"
    /\ nread < MaxLines
    /\ \E l \in SourceLines : held' = l
    /\ nread' = nread + 1
    /\ ipc' = "send"
    /\ UNCHANGED <<argVars, confVars, query, lockVars, chan, cancelCount,
                   keepVars, inputVars, histVars>>

IngestTimeout ==
    /\ ipc = "read"
    /\ ipc' = "check"
    /\ UNCHANGED <<argVars, confVars, query, lockVars, chan, cancelCount,
                   held, nread, keepVars, inputVars, histVars>>

\* End of stream, a source failure, or the task ending abnormally.
IngestEnd ==
    /\ ipc = "read"
    /\ ipc' \in {"Ok", "Err", "Panic"}
    /\ UNCHANGED <<argVars, confVars, query, lockVars, chan, cancelCount,
                   held, nread, keepVars, inputVars, histVars>>

\* tx.send(line).await: waits while the channel is full, fails once the
\* receiver is gone.
IngestSend ==
    /\ ipc = "send"
    /\ ~KeepEnded
    /\ Len(chan) < ChannelCapacity
    /\ chan' = Append(chan, held)
    /\ forwarded' = Append(forwarded, held)
    /\ held' = NoLine
    /\ ipc' = "check"
    /\ UNCHANGED <<argVars, confVars, query, lockVars, cancelCount, nread,
                   keepVars, inputVars, received, npush, shown,
                   recvAfterCancel>>

IngestSendClosed ==
    /\ ipc = "send"
    /\ KeepEnded
    /\ held' = NoLine
    /\ ipc' = "Err"
    /\ UNCHANGED <<argVars, confVars, query, lockVars, chan, cancelCount,
                   nread, keepVars, inputVars, histVars>>

(***************************************************************************)
(* The keeping task, lines 105-140.                                        *)
(***************************************************************************)
\* Line 111: interval.tick().await.
KeepTick ==
    /\ kpc = "tick"
    /\ kpc' = "recv"
    /\ UNCHANGED <<argVars, confVars, query, lockVars, chan, cancelCount,
                   ingestVars, kline, queue, inputVars, histVars>>

\* Lines 112-113: rx.recv().await returns Some(line).
KeepRecvLine ==
    /\ kpc = "recv"
    /\ chan # <<>>
    /\ kline' = ChanFront(chan)
    /\ chan' = ChanRest(chan)
    /\ received' = Append(received, ChanFront(chan))
    /\ recvAfterCancel' = IF canceled THEN recvAfterCancel + 1
                          ELSE recvAfterCancel
    /\ kpc' = "lockEditor"
    /\ UNCHANGED <<argVars, confVars, query, lockVars, cancelCount,
                   ingestVars, queue, inputVars, forwarded, npush, shown>>

\* The receive with a sender still alive somewhere after the streaming
\* task ended: the channel never reports closed and recv stays pending.
KeepRecvNeverClosed ==
    /\ kpc = "recv"
    /\ chan = <<>>
    /\ IngestEnded
    /\ UNCHANGED vars

\* Lines 112, 136, 139: rx.recv().await returns None once the channel is
\* empty and the sender dropped; the task returns Ok(queue).
KeepRecvClosed ==
    /\ kpc = "recv"
    /\ chan = <<>>
    /\ IngestEnded
    /\ kpc' = "Ok"
    /\ UNCHANGED <<argVars, confVars, query, lockVars, chan, cancelCount,
                   ingestVars, kline, queue, inputVars, histVars>>

\* The read of the editor state taken without waiting for the writer, as
\* if the state were shared without the lock of lines 90-91.
KeepLockEditorNoWait ==
    /\ kpc = "lockEditor"
    /\ edReader' = TRUE
    /\ kpc' = "process"
    /\ UNCHANGED <<argVars, confVars, query, edWriter, termWriter,
                   termReader, chan, cancelCount, ingestVars, kline, queue,
                   inputVars, histVars>>

\* Line 114: readonly_text_editor.read().await.
KeepLockEditor ==
    /\ kpc = "lockEditor"
    /\ ~edWriter
    /\ edReader' = TRUE
    /\ kpc' = "process"
    /\ UNCHANGED <<argVars, confVars, query, edWriter, termWriter,
                   termReader, chan, cancelCount, ingestVars, kline, queue,
                   inputVars, histVars>>

\* Line 115 failing: size()? returns the error, the guard and the receiver
\* are dropped.
KeepSizeFail ==
    /\ kpc = "process"
    /\ kpc' = "Err"
    /\ kline' = NoLine
    /\ edReader' = FALSE
    /\ UNCHANGED <<argVars, confVars, query, edWriter, termWriter,
                   termReader, chan, cancelCount, ingestVars, queue,
                   inputVars, histVars>>

\* The iteration with the push moved under the match: a Line that does
\* not match is not retained.
KeepProcessIfMatch ==
    /\ kpc = "process"
    /\ IF styled(query, kline, case_insensitive).some
       THEN /\ queue' = PushLine(queue, kline, queue_capacity)
            /\ npush' = npush + 1
            /\ kpc' = "lockTerm"
            /\ UNCHANGED <<kline, edReader, shown>>
       ELSE /\ kpc' = "tick"
            /\ kline' = NoLine
            /\ edReader' = FALSE
            /\ UNCHANGED <<queue, npush, shown>>
    /\ UNCHANGED <<argVars, confVars, query, edWriter, termWriter,
                   termReader, chan, cancelCount, ingestVars, inputVars,
                   forwarded, received, recvAfterCancel>>

\* Lines 115-128: size, eviction and push, styled; without a match the
\* iteration ends here (line 134) and the guard is dropped.
KeepProcess ==
    /\ kpc = "process"
    /\ queue' = PushLine(queue, kline, queue_capacity)
    /\ npush' = npush + 1
    /\ IF styled(query, kline, case_insensitive).some
       THEN /\ kpc' = "lockTerm"
            /\ UNCHANGED <<kline, edReader, shown>>
       ELSE /\ kpc' = "tick"
            /\ kline' = NoLine
            /\ edReader' = FALSE
            /\ shown' = Append(shown, FALSE)
    /\ UNCHANGED <<argVars, confVars, query, edWriter, termWriter,
                   termReader, chan, cancelCount, ingestVars, inputVars,
                   forwarded, received, recvAfterCancel>>

\* Line 129: readonly_term.read().await.
KeepLockTerm ==
    /\ kpc = "lockTerm"
    /\ ~termWriter
    /\ termReader' = TRUE
    /\ kpc' = "draw"
    /\ UNCHANGED <<argVars, confVars, query, edWriter, edReader, termWriter,
                   chan, cancelCount, ingestVars, kline, queue, inputVars,
                   histVars>>

\* Lines 130-134: draw_stream_and_pane is called for the line; both guards
\* are dropped at the end of the iteration, or with the error.
KeepDraw ==
    /\ kpc = "draw"
    /\ kpc' \in {"tick", "Err"}
    /\ kline' = NoLine
    /\ shown' = Append(shown, TRUE)
    /\ edReader' = FALSE
    /\ termReader' = FALSE
    /\ UNCHANGED <<argVars, confVars, query, edWriter, termWriter, chan,
                   cancelCount, ingestVars, queue, inputVars, forwarded,
                   received, npush, recvAfterCancel>>

(***************************************************************************)
(* The input loop and the shutdown, lines 142-160.                         *)
(***************************************************************************)
\* Line 144: event::read()?.
ReadEvent ==
    /\ rpc = "read"
    /\ rpc' \in {"lockEditor", "Err"}
    /\ UNCHANGED <<argVars, confVars, query, lockVars, chan, cancelCount,
                   ingestVars, keepVars, signal, result, histVars>>

\* Line 145: shared_text_editor.write().await.
InputLockEditor ==
    /\ rpc = "lockEditor"
    /\ ~edReader
    /\ edWriter' = TRUE
    /\ rpc' = "keymap"
    /\ UNCHANGED <<argVars, confVars, query, edReader, termWriter,
                   termReader, chan, cancelCount, ingestVars, keepVars,
                   signal, result, histVars>>

\* The keymap step with the test of lines 147-149 moved behind the redraw:
\* every event, whatever its Signal, goes on to the size query.
KeymapResolveRedrawsFirst ==
    /\ rpc = "keymap"
    /\ query' \in EditorTexts
    /\ signal' \in Signals
    /\ rpc' = "size"
    /\ UNCHANGED <<argVars, confVars, lockVars, chan, cancelCount,
                   ingestVars, keepVars, result, histVars>>

\* Lines 146-149: the keymap edits the text and resolves the event; a
\* terminating Signal leaves the loop, which drops the guard.
KeymapResolve ==
    /\ rpc = "keymap"
    /\ query' \in EditorTexts
    /\ signal' \in Signals
    /\ IF IsTerminating(signal')
       THEN rpc' = "cancel" /\ edWriter' = FALSE
       ELSE rpc' = "size" /\ UNCHANGED edWriter
    /\ UNCHANGED <<argVars, confVars, edReader, termWriter, termReader,
                   chan, cancelCount, ingestVars, keepVars, result,
                   histVars>>

\* Line 146 failing: the keymap returns an error, run returns it.
KeymapFail ==
    /\ rpc = "keymap"
    /\ query' \in EditorTexts
    /\ rpc' = "Err"
    /\ edWriter' = FALSE
    /\ UNCHANGED <<argVars, confVars, edReader, termWriter, termReader,
                   chan, cancelCount, ingestVars, keepVars, signal, result,
                   histVars>>

\* Lines 151-152: size()? and the pane.
InputSize ==
    /\ rpc = "size"
    /\ \/ rpc' = "lockTerm" /\ UNCHANGED edWriter
       \/ rpc' = "Err" /\ edWriter' = FALSE
    /\ UNCHANGED <<argVars, confVars, query, edReader, termWriter,
                   termReader, chan, cancelCount, ingestVars, keepVars,
                   signal, result, histVars>>

\* Line 153: shared_term.write().await.
InputLockTerm ==
    /\ rpc = "lockTerm"
    /\ ~termReader
    /\ termWriter' = TRUE
    /\ rpc' = "draw"
    /\ UNCHANGED <<argVars, confVars, query, edWriter, edReader, termReader,
                   chan, cancelCount, ingestVars, keepVars, signal, result,
                   histVars>>

\* The draw with the editor write guard outliving the iteration: it is
\* still held while the loop waits for the next event.
InputDrawKeepsEditorGuard ==
    /\ rpc = "draw"
    /\ rpc' \in {"read", "Err"}
    /\ termWriter' = FALSE
    /\ UNCHANGED <<argVars, confVars, query, edWriter, edReader, termReader,
                   chan, cancelCount, ingestVars, keepVars, signal, result,
                   histVars>>

\* Lines 154-155: draw_pane(&pane)?; both guards are dropped at the end of
\* the iteration, or with the error.
InputDraw ==
    /\ rpc = "draw"
    /\ rpc' \in {"read", "Err"}
    /\ edWriter' = FALSE
    /\ termWriter' = FALSE
    /\ UNCHANGED <<argVars, confVars, query, edReader, termReader, chan,
                   cancelCount, ingestVars, keepVars, signal, result,
                   histVars>>

\* A shutdown that trips the token a second time.
CancelTwice ==
    /\ rpc = "cancel"
    /\ cancelCount' = cancelCount + 2
    /\ rpc' = "joinStreaming"
    /\ UNCHANGED <<argVars, confVars, query, lockVars, chan, ingestVars,
                   keepVars, signal, result, histVars>>

\* The shutdown without the call of line 157: the token is never tripped.
CancelForgotten ==
    /\ rpc = "cancel"
    /\ rpc' = "joinStreaming"
    /\ UNCHANGED <<argVars, confVars, query, lockVars, chan, cancelCount,
                   ingestVars, keepVars, signal, result, histVars>>

\* Line 157: canceler.cancel().
Cancel ==
    /\ rpc = "cancel"
    /\ cancelCount' = cancelCount + 1
    /\ rpc' = "joinStreaming"
    /\ UNCHANGED <<argVars, confVars, query, lockVars, chan, ingestVars,
                   keepVars, signal, result, histVars>>

\* The streaming task's handle dropped without being awaited: the caller
\* goes on to the keeping task while the streaming task may be running.
JoinStreamingNoWait ==
    /\ rpc = "joinStreaming"
    /\ rpc' = IF ipc = "Panic" THEN "Err" ELSE "joinKeeping"
    /\ UNCHANGED <<argVars, confVars, query, lockVars, chan, cancelCount,
                   ingestVars, keepVars, signal, result, histVars>>

\* Line 158: streaming.await?; only a join error is returned, the task's
\* own result is bound to _ and dropped.
JoinStreaming ==
    /\ rpc = "joinStreaming"
    /\ IngestEnded
    /\ rpc' = IF ipc = "Panic" THEN "Err" ELSE "joinKeeping"
    /\ UNCHANGED <<argVars, confVars, query, lockVars, chan, cancelCount,
                   ingestVars, keepVars, signal, result, histVars>>

\* The last line with the keeping task's own result dropped like the
\* streaming task's: the buffer is returned even when the task failed.
JoinKeepingDropsError ==
    /\ rpc = "joinKeeping"
    /\ KeepEnded
    /\ rpc' = "Ok"
    /\ result' = [ok |-> TRUE, signal |-> signal, buffer |-> queue]
    /\ UNCHANGED <<argVars, confVars, query, lockVars, chan, cancelCount,
                   ingestVars, keepVars, signal, histVars>>

\* Line 160: Ok((signal, keeping.await??)).
JoinKeeping ==
    /\ rpc = "joinKeeping"
    /\ KeepEnded
    /\ IF kpc = "Ok"
       THEN /\ rpc' = "Ok"
            /\ result' = [ok |-> TRUE, signal |-> signal, buffer |-> queue]
       ELSE /\ rpc' = "Err"
            /\ UNCHANGED result
    /\ UNCHANGED <<argVars, confVars, query, lockVars, chan, cancelCount,
                   ingestVars, keepVars, signal, histVars>>

Next ==
    \/ IngestCheck \/ IngestReadLine \/ IngestTimeout \/ IngestEnd
    \/ IngestSend \/ IngestSendClosed
    \/ KeepTick \/ KeepRecvLine \/ KeepRecvClosed \/ KeepLockEditor
    \/ KeepSizeFail \/ KeepProcess \/ KeepLockTerm \/ KeepDraw
    \/ ReadEvent \/ InputLockEditor \/ KeymapResolve \/ KeymapFail
    \/ InputSize \/ InputLockTerm \/ InputDraw
    \/ Cancel \/ JoinStreaming \/ JoinKeeping

Spec == Init /\ [][Next]_vars

\* The runtime keeps scheduling a spawned task that can take a step: the
\* tick fires, a read returns within its timeout, a free guard is granted.
IngestNext ==
    \/ IngestCheck \/ IngestReadLine \/ IngestTimeout \/ IngestEnd
    \/ IngestSend \/ IngestSendClosed

KeepNext ==
    \/ KeepTick \/ KeepRecvLine \/ KeepRecvClosed \/ KeepLockEditor
    \/ KeepSizeFail \/ KeepProcess \/ KeepLockTerm \/ KeepDraw

\* The steps of run itself that do not wait for the user: everything but
\* event::read (line 144).
MainNext ==
    \/ InputLockEditor \/ KeymapResolve \/ KeymapFail \/ InputSize
    \/ InputLockTerm \/ InputDraw \/ Cancel \/ JoinStreaming \/ JoinKeeping

\* The fair runs start from one configuration: the capacity and the case
\* flag decide which Lines are kept and shown, not which task can step.
FairInit == Init /\ queue_capacity = 1 /\ ~case_insensitive

\* The runtime keeps scheduling each task that can take a step; only the
\* arrival of an input event is left to the user.  The editor lock of
\* lines 90-91 queues its waiters, so the keeping task obtains it even if
\* the input loop takes and releases it again and again; the terminal
\* lock is only requested by the holder of the editor lock.
FairSpec ==
    /\ FairInit /\ [][Next]_vars
    /\ WF_vars(IngestNext) /\ WF_vars(KeepNext) /\ WF_vars(MainNext)
    /\ SF_vars(KeepLockEditor)

(***************************************************************************)
(* Calls of styled on every Query and Line within the bounds.              *)
(***************************************************************************)
InitStyled ==
    /\ argQuery \in SeqsUpTo(QueryChars, MaxQueryLen)
    /\ argLine \in SeqsUpTo(LineChars, MaxLineLen)
    /\ argCI \in BOOLEAN
    /\ ret = NotCalled
    /\ queue_capacity = 1 /\ case_insensitive = FALSE
    /\ query = <<>>
    /\ edWriter = FALSE /\ edReader = FALSE
    /\ termWriter = FALSE /\ termReader = FALSE
    /\ chan = <<>>
    /\ cancelCount = 0
    /\ ipc = "check" /\ held = NoLine /\ nread = 0
    /\ kpc = "tick" /\ kline = NoLine /\ queue = <<>>
    /\ rpc = "read" /\ signal = NoSignal /\ result = NoResult
    /\ forwarded = <<>> /\ received = <<>> /\ npush = 0 /\ shown = <<>>
    /\ recvAfterCancel = 0

CallStyled ==
    /\ ret = NotCalled
    /\ ret' = [called |-> TRUE, value |-> styled(argQuery, argLine, argCI)]
    /\ UNCHANGED <<argQuery, argLine, argCI, confVars, query, lockVars,
                   chan, cancelCount, ingestVars, keepVars, inputVars,
                   histVars>>

NextStyled == CallStyled

SpecStyled == InitStyled /\ [][NextStyled]_vars

(***************************************************************************)
(* Properties.                                                             *)
(***************************************************************************)
IsPrefix(s, t) == Len(s) <= Len(t) /\ s = SubSeq(t, 1, Len(s))

TerminatingSignals == {"GotoArchived", "GotoStreaming"}
InputLoopPcs == {"read", "lockEditor", "keymap", "size", "lockTerm", "draw"}

\* The last n elements of s.
LastN(s, n) == SubSeq(s, Len(s) - n + 1, Len(s))

\* C1: after any sequence of received Lines, for any capacity >= 1, the
\* Retention Buffer's length never exceeds the configured capacity.
C1_BufferWithinCapacity ==
    queue_capacity >= 1 => Len(queue) <= queue_capacity

\* C2: when more Lines arrived than the capacity and run has returned, the
\* returned buffer is exactly the last `capacity` Lines in arrival order
\* (so after capacity + 1 arrivals its first element is the 2nd Line).
C2_ReturnsLastCapacityLines ==
    (result.ok /\ Len(received) > queue_capacity)
        => result.buffer = LastN(received, queue_capacity)

\* C3: run returns Ok only after the input loop produced one of the two
\* terminating Signals; the pair it returns is that Signal and the final
\* buffer of the ended keeping task; while the input loop runs, or with
\* any other Signal, run has not returned Ok, whatever the stream did.
C3_OkOnlyAfterTerminatingSignal ==
    /\ result.ok =>
          /\ rpc = "Ok"
          /\ signal \in TerminatingSignals
          /\ result.signal = signal
          /\ kpc = "Ok"
          /\ result.buffer = queue
    /\ rpc = "Ok" => result.ok
    /\ (rpc \in InputLoopPcs \/ signal \notin TerminatingSignals)
          => (~result.ok /\ rpc # "Ok")

\* C3 witness: run returned Ok with GotoArchived and a buffer of two Lines.
C3_Witness ==
    /\ result.ok
    /\ result.signal = "GotoArchived"
    /\ Len(result.buffer) = 2

\* C4 as stated: received Lines are a prefix of the forwarded ones, and in
\* every state the buffer is a contiguous run of the received sequence
\* that ends with the most recently received Line.
C4_BufferEndsWithLastReceived ==
    /\ IsPrefix(received, forwarded)
    /\ received # <<>> =>
          /\ queue # <<>>
          /\ Len(queue) <= Len(received)
          /\ queue = LastN(received, Len(queue))

\* C4 amended: Lines are received in exactly the order forwarded, none
\* twice, none skipped (what was forwarded is what was received followed
\* by what is still in the channel); the buffer is a contiguous run of the
\* received sequence ending with the most recently received Line, or,
\* while the keeping task holds a received Line it has not pushed (it
\* waits for the editor guard, or its size query failed), with the Line
\* received before that one.
C4_FifoAndBufferContiguous ==
    /\ forwarded = received \o chan
    /\ npush \in {Len(received), Len(received) - 1}
    /\ npush < Len(received) => kpc \in {"lockEditor", "process", "Err"}
    /\ Len(queue) <= npush
    /\ queue = SubSeq(received, npush - Len(queue) + 1, npush)

\* C4 witness: three different-looking Lines received in order, the oldest
\* evicted, the newest at the back.
C4_Witness ==
    /\ received = <<<<"a">>, <<"A">>, <<"a">>>>
    /\ npush = 3
    /\ queue = <<<<"A">>, <<"a">>>>

\* C5 as stated: every Line the keeping task has received and no longer
\* holds has been pushed into the buffer.
C5_AllReceivedPushed ==
    kpc \notin {"lockEditor", "process"} => npush = Len(received)

C5_Decided ==
    Len(shown) + (IF kpc \in {"lockTerm", "draw"} THEN 1 ELSE 0) = npush

C5_Step ==
    LET m == styled(query, kline, case_insensitive).some
    IN /\ (kpc = "process" /\ kpc' \notin {"process", "Err"}) =>
             /\ npush' = npush + 1
             /\ queue' # <<>>
             /\ queue'[Len(queue')] = kline
             /\ kpc' = (IF m THEN "lockTerm" ELSE "tick")
             /\ shown' = (IF m THEN shown ELSE Append(shown, FALSE))
       /\ (kpc = "lockTerm") =>
             (kpc' \in {"lockTerm", "draw"} /\ shown' = shown)
       /\ (kpc = "draw") =>
             shown' = (IF kpc' = "draw" THEN shown ELSE Append(shown, TRUE))
       /\ (kpc \notin {"process", "draw"}) => shown' = shown
       /\ (kpc # "process" \/ kpc' \in {"process", "Err"}) =>
             (npush' = npush /\ queue' = queue)

\* C5 amended: every received Line whose terminal size query succeeds is
\* pushed into the buffer whatever the Query and whatever styled returns;
\* the merged draw is called for it if and only if styled returns a match
\* for it under the Query read in that iteration.  (A Line whose size
\* query fails is dropped with the task's error.)
C5_RetainedWhateverTheMatch == []C5_Decided /\ [][C5_Step]_vars

\* C5 witness: Query "a", case-sensitive, Lines A, a, A: only the second
\* was drawn and all three are retained.
C5_Witness ==
    /\ ~case_insensitive
    /\ query = <<"a">>
    /\ received = <<<<"A">>, <<"a">>, <<"A">>>>
    /\ shown = <<FALSE, TRUE, FALSE>>
    /\ queue = received

C6_KeepingEnds == canceled ~> KeepEnded

C7_IngestErrorSurfaces == ipc = "Err" => ~result.ok

\* C8 as stated: a session that has ended tripped the token exactly once.
C8_TrippedExactlyOncePerSession ==
    rpc \in {"Ok", "Err"} => cancelCount = 1

C8_Inv ==
    /\ cancelCount <= 1
    /\ canceled =>
          (signal \in TerminatingSignals /\ rpc \notin InputLoopPcs)
    /\ (signal \in TerminatingSignals /\ rpc # "cancel") => cancelCount = 1
    /\ rpc = "Ok" => cancelCount = 1

\* C8 amended: the token is tripped at most once per session, and exactly
\* once in every session whose input loop produced a terminating Signal
\* (a session whose input loop fails returns without tripping it); it is
\* tripped only after that Signal, never while the input loop runs, and
\* once tripped it is never reset.
C8_TrippedOnceAfterTerminatingSignal ==
    []C8_Inv /\ [][cancelCount' >= cancelCount]_vars

\* C8 witness: a session that returned Ok with the token tripped once.
C8_Witness == rpc = "Ok" /\ cancelCount = 1 /\ signal = "GotoStreaming"

(***************************************************************************)
(* Properties of styled, stated on the calls of SpecStyled.                *)
(***************************************************************************)
OnlySeparators(q) == \A i \in 1..Len(q) : q[i] \in {"|", " "}

\* C9: for every Query made only of `|` and blanks (the empty Query
\* included) and every Line, styled returns a match with no highlighted
\* offset, as for the empty Query.
C9_SeparatorOnlyQueryShowsAll ==
    (ret.called /\ OnlySeparators(argQuery))
        => (ret.value.some /\ ret.value.hl = {})

\* Whether word w is in the language of the atoms.
RECURSIVE InLang(_, _, _)
InLang(atoms, w, ci) ==
    IF atoms = <<>> THEN w = <<>>
    ELSE LET a == Head(atoms)
         IN IF ~a.star
            THEN w # <<>> /\ CharEq(a.c, w[1], ci)
                          /\ InLang(Tail(atoms), Tail(w), ci)
            ELSE \/ InLang(Tail(atoms), w, ci)
                 \/ (w # <<>> /\ CharEq(a.c, w[1], ci)
                              /\ InLang(atoms, Tail(w), ci))

\* Sub-pattern p matches the bytes [s, e) of the Line of the call.
SubMatches(p, s, e) == InLang(Atoms(p), SubSeq(argLine, s + 1, e), argCI)

SubPatterns == Piped(argQuery)
SubPatternSet == {SubPatterns[j] : j \in 1..Len(SubPatterns)}

\* The Query of the call has a sub-pattern and all of them compile.
C10_Applies ==
    /\ ret.called
    /\ SubPatterns # <<>>
    /\ \A p \in SubPatternSet : Compiles(p)

\* A sub-pattern's own non-overlapping left-to-right matches.
OwnCovered(p) == Covered(FindIter(<<p>>, argLine, 0, -1, argCI))

HasBadPattern(q) ==
    \E i \in 1..Len(Piped(q)) : ~Compiles(Piped(q)[i])

\* The keeping task's step that runs lines 115-128 to the end: the size
\* query succeeded and styled was called.
C11_Highlighted ==
    /\ kpc = "process"
    /\ kpc' \notin {"process", "Err"}

C11_Step ==
    (C11_Highlighted /\ HasBadPattern(query)) =>
        /\ kpc' = "tick"
        /\ npush' = npush + 1
        /\ queue' # <<>>
        /\ queue'[Len(queue')] = kline
        /\ shown' = Append(shown, FALSE)
        /\ edReader' = FALSE

\* C11: when a sub-pattern of the Query does not compile, the highlight
\* of a Line is "no match" and not an error: the Line is pushed to the
\* buffer, nothing is drawn for it, the keeping task does not end and
\* goes on to its next tick; no draw is ever under way for such a Query.
C11_CompileFailureIsNoMatch ==
    /\ [](kpc \in {"lockTerm", "draw"} => ~HasBadPattern(query))
    /\ [][C11_Step]_vars

\* C11 witness: under the Query "*" two Lines were pushed and none shown,
\* and the keeping task is processing a third.
C11_Witness ==
    /\ query = <<"*">>
    /\ npush = 2
    /\ shown = <<FALSE, FALSE>>
    /\ kpc = "process"
    /\ Len(received) = 3

\* kpc = "Err" is reached only from the size query of line 115 and the
\* draw of lines 130-133, the keeping task's two terminal operations.
C12_Inv ==
    /\ kpc = "Err" => (~result.ok /\ rpc # "Ok")
    /\ rpc = "Err" => ~result.ok

C12_Step ==
    /\ (rpc \in {"size", "draw"} /\ rpc' \notin {rpc, "lockTerm", "read"})
          => (rpc' = "Err" /\ ~result'.ok)
    /\ rpc = "Err" => rpc' = "Err"
    /\ kpc = "Err" => kpc' = "Err"
    /\ (kpc = "Err" /\ rpc = "joinKeeping" /\ rpc' # rpc) => rpc' = "Err"

\* C12: a failed size query or draw is returned as an error by run and
\* never replaced by an Ok pair: in the input loop the failing step is the
\* error return itself; in the keeping task it ends the task with the
\* error, which the final await hands to the caller; an error return is
\* final and no Ok result exists once either failure has happened.
C12_TerminalFailureIsReturned ==
    /\ []C12_Inv
    /\ [][C12_Step]_vars

\* C12 witness: the keeping task failed on the terminal after retaining a
\* Line, the session was then shut down by a terminating Signal with the
\* streaming task joined cleanly, and run returned the error.
C12_Witness ==
    /\ kpc = "Err"
    /\ npush >= 1
    /\ signal \in TerminatingSignals
    /\ canceled
    /\ ipc # "Panic"
    /\ rpc = "Err"

C13_Step ==
    IF npush' = npush
    THEN queue' = queue
    ELSE /\ npush' = npush + 1
         /\ \/ queue' = Append(queue, kline)
            \/ /\ queue # <<>>
               /\ queue' = Append(Tail(queue), kline)

\* C13: the buffer never holds more than capacity + 1 Lines; a step that
\* retains a Line appends it at the back and removes at most one element,
\* the front one, leaving the others in their order; no other step
\* changes the buffer.
C13_EvictsOldestAtMostOne ==
    /\ [](Len(queue) <= queue_capacity + 1)
    /\ [][C13_Step]_vars

\* C13 witness: the buffer is at capacity + 1 after one eviction, and the
\* evicted Line differs from the one that is now at the front.
C13_Witness ==
    /\ Len(queue) = queue_capacity + 1
    /\ npush = Len(queue) + 1
    /\ received[1] # queue[1]
    /\ queue = LastN(received, Len(queue))

\* C14 as stated: once the token is tripped, run returns (Ok or an
\* error) only after both background tasks were awaited to completion.
C14_ReturnsOnlyAfterBothAwaited ==
    (canceled /\ rpc \in {"Ok", "Err"}) => (IngestEnded /\ KeepEnded)

\* C14: the token is tripped before the streaming task is awaited, the
\* streaming task has ended before the keeping task is awaited, and run
\* returns after the keeping task has ended, except that a join error of
\* the streaming task is returned at once with the keeping task not
\* awaited; run never returns Ok while either task is running.
C14_ShutdownOrder ==
    /\ rpc \in InputLoopPcs \cup {"cancel"} => ~canceled
    /\ rpc \in {"joinStreaming", "joinKeeping", "Ok"} => canceled
    /\ rpc \in {"joinKeeping", "Ok"} => (IngestEnded /\ ipc # "Panic")
    /\ rpc = "Ok" => (kpc = "Ok" /\ result.ok)
    /\ result.ok => rpc = "Ok"
    /\ (rpc = "Err" /\ canceled) =>
          /\ IngestEnded
          /\ ipc # "Panic" => kpc = "Err"

\* C14 witness: run returned Ok after a shutdown in which the keeping task
\* still received a Line once the token was tripped.
C14_Witness ==
    /\ rpc = "Ok"
    /\ result.ok
    /\ ipc = "Ok"
    /\ kpc = "Ok"
    /\ recvAfterCancel >= 1

\* C15: under fair scheduling of the tasks, once the keymap has produced a
\* terminating Signal run returns, with the streaming task and the
\* keeping task both ended, also when the streaming task was blocked on
\* the full channel as the token was tripped.
C15_RunReturnsAfterTerminatingSignal ==
    (signal \in TerminatingSignals)
        ~> (rpc \in {"Ok", "Err"} /\ IngestEnded /\ KeepEnded)

\* C15 witness: the token is tripped while the streaming task is blocked
\* forwarding a Line into the full channel, and run is awaiting it.
C15_Witness ==
    /\ signal \in TerminatingSignals
    /\ canceled
    /\ rpc = "joinStreaming"
    /\ ipc = "send"
    /\ Len(chan) = ChannelCapacity

\* C16 as stated: once both tasks have ended, the keeping task has ended
\* with its buffer and every forwarded Line was received and processed.
C16_DrainsEveryForwardedLine ==
    (IngestEnded /\ KeepEnded) =>
        /\ kpc = "Ok"
        /\ received = forwarded
        /\ npush = Len(forwarded)

\* Every forwarded Line is in the channel or was received, and every
\* received Line was pushed or is the one being processed, as long as no
\* terminal failure has ended the keeping task; the task returns its
\* buffer only from the closed and empty channel.
C16_Inv ==
    /\ kpc # "Err" =>
          /\ forwarded = received \o chan
          /\ Len(received) =
                npush + (IF kpc \in {"lockEditor", "process"} THEN 1 ELSE 0)
    /\ kpc = "Ok" =>
          /\ IngestEnded
          /\ chan = <<>>
          /\ received = forwarded
          /\ npush = Len(forwarded)

\* C16: when the streaming task has ended, however it ended, the keeping
\* task ends too; unless a failed size query or draw has ended it with
\* the error, it has then received and pushed every forwarded Line and
\* returns its buffer.
C16_KeepingDrainsThenEnds ==
    /\ []C16_Inv
    /\ IngestEnded ~> KeepEnded

\* C16 witness: the streaming task failed with a Line left in the channel
\* and the token untouched; the keeping task received that Line after the
\* failure, pushed it and returned its buffer.
C16_Witness ==
    /\ ipc = "Err"
    /\ ~canceled
    /\ kpc = "Ok"
    /\ Len(forwarded) = 2
    /\ npush = 2
    /\ Len(queue) = 2

\* What the input loop does with an event once the keymap has resolved it
\* (a keymap error resolves nothing): a terminating Signal leaves the loop
\* at once with the editor lock released, any other Signal goes on to the
\* redraw; after leaving, the loop's steps are never taken again.
C17_Resolved ==
    /\ (rpc = "keymap" /\ rpc' \notin {"keymap", "Err"}) =>
          IF signal' \in TerminatingSignals
          THEN rpc' = "cancel" /\ ~edWriter' /\ ~termWriter'
          ELSE rpc' = "size"
    /\ rpc \in {"size", "lockTerm", "draw"} =>
          (signal \notin TerminatingSignals /\ signal' = signal)
    /\ rpc \notin InputLoopPcs => rpc' \notin InputLoopPcs

\* The redraw of lines 151-154: size, terminal lock, one draw, then the
\* wait for the next event; `failures` says where an error may leave it.
C17_Redraw(failures) ==
    /\ rpc = "size" => rpc' \in {"size", "lockTerm"} \cup failures
    /\ rpc = "lockTerm" => rpc' \in {"lockTerm", "draw"}
    /\ rpc = "draw" => rpc' \in {"draw", "read"} \cup failures
    /\ rpc = "read" => rpc' \in {"read", "lockEditor", "Err"}

C18_Inv ==
    /\ edWriter <=> rpc \in {"keymap", "size", "lockTerm", "draw"}
    /\ termWriter <=> rpc = "draw"
    /\ edReader <=> kpc \in {"process", "lockTerm", "draw"}
    /\ termReader <=> kpc = "draw"
    /\ ~(edWriter /\ edReader)
    /\ ~(termWriter /\ termReader)
    /\ ~(rpc = "draw" /\ kpc = "draw")

\* C18: the input loop's section writing the editor state never overlaps
\* the keeping task's section reading it, draw_pane never overlaps
\* draw_stream_and_pane, and the Query changes only in the input loop's
\* keymap step, under the write guard: no step of the keeping task
\* changes it.
C18_CriticalSectionsDisjoint ==
    /\ []C18_Inv
    /\ [][query' # query => (rpc = "keymap" /\ edWriter /\ ~edReader)]_vars

\* C18 witness: an event arrived while the keeping task draws a Line under
\* the read guards; the input loop waits for the editor lock.
C18_Witness ==
    /\ rpc = "lockEditor"
    /\ kpc = "draw"
    /\ edReader /\ termReader
    /\ ~edWriter

\* Lines read by the streaming task and not yet received by the keeping
\* task.
Unreceived == nread - Len(received)

\* C19: the channel never holds more than one Line; a streaming task that
\* has a Line to forward while the channel is full can take no step, so
\* it reads nothing, until the keeping task receives (or has ended); the
\* Lines read and not yet received are at most two, and when they are two
\* with the keeping task alive, one is in the channel and the other is
\* held by the blocked sender.
C19_BackpressureBound ==
    /\ Len(chan) <= 1
    /\ Unreceived <= 2
    /\ (ipc = "send" /\ Len(chan) = 1 /\ ~KeepEnded) =>
          (~ENABLED IngestNext /\ held # NoLine)
    /\ (Unreceived = 2 /\ ~KeepEnded) =>
          (ipc = "send" /\ Len(chan) = 1)

\* C19 witness: the keeping task waits for its tick with one Line in the
\* channel while the sender is blocked holding the next one.
C19_Witness ==
    /\ kpc = "tick"
    /\ Len(chan) = 1
    /\ ipc = "send"
    /\ held # NoLine
    /\ Unreceived = 2
    /\ Len(received) = 1

\* A task is waiting for a lock the other task holds.
InputWaitsForLock ==
    \/ rpc = "lockEditor" /\ edReader
    \/ rpc = "lockTerm" /\ termReader

KeepWaitsForLock ==
    \/ kpc = "lockEditor" /\ edWriter
    \/ kpc = "lockTerm" /\ termWriter

\* C20: the input loop and the keeping task never wait for each other's
\* locks at once; each holds the terminal lock only while holding the
\* editor lock, holds neither lock while it waits for an event, a tick,
\* a Line or a task's end, and whenever one waits for a lock the holder
\* has a step to take.
C20_NoLockDeadlock ==
    /\ ~(InputWaitsForLock /\ KeepWaitsForLock)
    /\ termWriter => edWriter
    /\ termReader => edReader
    /\ rpc \notin {"keymap", "size", "lockTerm", "draw"}
          => (~edWriter /\ ~termWriter)
    /\ kpc \notin {"process", "lockTerm", "draw"}
          => (~edReader /\ ~termReader)
    /\ rpc = "lockTerm" => ~termReader
    /\ kpc = "lockTerm" => ~termWriter
    /\ InputWaitsForLock => ENABLED KeepNext
    /\ KeepWaitsForLock => ENABLED MainNext

\* C20 witness: the keeping task waits for the editor lock, which the
\* input loop holds while on its way to the terminal lock.
C20_Witness ==
    /\ kpc = "lockEditor"
    /\ edWriter
    /\ rpc = "lockTerm"
    /\ ~termReader

====
